---- MODULE Spec2Model ----
(***************************************************************************)
(* Model of steam-mcp-server's core: the bounded fan-out helper            *)
(* parallelMap with the two tools that drive it (get_perfect_games,        *)
(* get_achievement_summary), the 24h app-list cache getCachedAppList, the  *)
(* account id <-> 64-bit Steam ID transform and the enrichment joins.      *)
(*                                                                         *)
(* Execution model: JavaScript's single-threaded run-to-completion.  An    *)
(* async function runs without interruption from one `await` to the next;  *)
(* promise reactions of other operations run only while it is suspended.   *)
(***************************************************************************)
EXTENDS Integers, Sequences, FiniteSets, TLC

\* ---------------------------------------------------------------- bounds
MaxItems == 3
MaxLimit == 2
MaxCalls == 3
MaxTicks == 3

\* ------------------------------------------------------ program constants
APP_LIST_CACHE_TTL == 24 * 60 * 60 * 1000
ToolConcurrency == 10

VARIABLES
  \* --- parallelMap(items, fn, concurrency) and its caller
  tool,          \* who calls parallelMap: a test double or one of the tools
  items,         \* items: the input sequence (app ids)
  concurrency,   \* the limit argument
  stub,          \* test-double fn: per item "value" | "null" | "reject"
  gw,            \* tools: per item, the answer of steam.getPlayerAchievements
  pc,            \* position of parallelMap
  next,          \* index of the next item of the for-of loop
  executing,     \* executing: the window, a sequence of operation indices
  status,        \* per operation: "unstarted" | "pending" | "fulfilled" | "rejected"
  results,       \* results: the entries pushed by the .then callbacks
  raceWinner,    \* index in executing that settles `await Promise.race(executing)`
  sweepIdx,      \* i of the removal loop
  settledFlag,   \* value the pending `await Promise.race([..true, false])` yields
  startLog,      \* history: fn(item) starts, in order
  windowFilled,  \* history: executing.length >= concurrency has been reached
  toolState,     \* tool handler: "start" | "top" (awaiting its top-level call) |
                 \*   "running" (awaiting parallelMap) | "returned" |
                 \*   "error_text" | "rejected"
  toolOutput,    \* the list the tool serialises
  steamId,       \* const id = getSteamId(steam_id)  (<<>> before it is set)
  games,         \* the answer of the tool's top-level call (games, recent, players, friends)
  topCalls,      \* number of top-level Gateway calls the handler has issued
  steam_id,      \* the handler's steam_id argument, once read (<<>> = absent)
  defaultSteamId, \* process.env.STEAM_ID, once read (<<>> = unset)
  \* --- getCachedAppList
  appListCache,  \* module variable appListCache (NoCache = null)
  clock,         \* Date.now()
  ticks,         \* number of clock advances so far
  callPc,        \* per call: "idle" | "fetching" | "returned" | "failed"
  callNow,       \* per call: its local `now`
  callFetch,     \* per call: the fetch it issued (0 = none)
  callResult,    \* per call: the snapshot it returned (0 = none)
  fetchCount,    \* number of steam.getAppList() requests issued
  fetchIssuedAt, \* history: per fetch, the `now` of the call that issued it
  writeLog,      \* history: fetches in the order their results were stored
  \* --- accountIdToSteamId and its reverse
  idPc,          \* "input" | "forward" | "reverse"
  accountId,     \* a 32-bit account id
  steamIdStr,    \* accountIdToSteamId(accountId), a decimal string
  accountBack,   \* Number(BigInt(steamIdStr) - STEAM_ID_BASE)
  \* --- enrichment joins: get_trade_offers and the client's hydrating calls
  joinTool,      \* "get_trade_offers" | "getFriendList" | "getBadges" | "getWishlist"
  joinFlag,      \* include_partner_names / includePlayerInfo / includeGameNames / includeNames
  primary,       \* keys of the primary records (trade_offers_sent for trade offers)
  primaryRecv,   \* keys of trade_offers_received
  known,         \* keys for which the remote has a secondary record
  joinPc,        \* "start" | "primary" | "secondary" | "done"
  joinRequests,  \* history: the identifier lists of the secondary requests sent
  joinChunks,    \* identifier lists still to be requested
  joinMap,       \* the key -> name Map built from the secondary answers
  joinOut,       \* the output records (sent_offers for trade offers)
  joinOutRecv,   \* received_offers
  joinOutcome,   \* "running" | "ok" | "error_text" | "rejected"
  joinCalls,     \* number of remote requests issued
  \* --- single-call tools: get_inventory, get_owned_games, get_servers_at_address
  rqTool,        \* the tool called
  rqArgs,        \* its arguments: address, limit, offset, sort_by
  rqPc,          \* "start" | "called" (awaiting its Gateway call) | "done"
  rqCalls,       \* number of Gateway calls issued
  rqAnswer,      \* what the Gateway call resolved to
  rqOutcome,     \* "none" | "ok" | "invalid_text" | "error_text" | "rejected"
  rqOut          \* the object the handler serialises

fanVars == <<tool, items, concurrency, stub, gw, pc, next, executing, status,
             results, raceWinner, sweepIdx, settledFlag, startLog,
             windowFilled, toolState, toolOutput, steamId, games, topCalls,
             steam_id, defaultSteamId>>
handlerVars == <<steamId, games, topCalls, steam_id, defaultSteamId>>
cacheVars == <<appListCache, clock, ticks, callPc, callNow, callFetch,
               callResult, fetchCount, fetchIssuedAt, writeLog>>
idVars == <<idPc, accountId, steamIdStr, accountBack>>
joinVars == <<joinTool, joinFlag, primary, primaryRecv, known, joinPc,
              joinRequests, joinChunks, joinMap, joinOut, joinOutRecv,
              joinOutcome, joinCalls>>
rqVars == <<rqTool, rqArgs, rqPc, rqCalls, rqAnswer, rqOutcome, rqOut>>
vars == <<fanVars, cacheVars, idVars, joinVars, rqVars>>
outsideFan == <<cacheVars, idVars, joinVars, rqVars>>
outsideCache == <<fanVars, idVars, joinVars, rqVars>>
outsideId == <<fanVars, cacheVars, joinVars, rqVars>>
outsideJoin == <<fanVars, cacheVars, idVars, rqVars>>
outsideRq == <<fanVars, cacheVars, idVars, joinVars>>

\* ------------------------------------------------------------- helpers
RECURSIVE Count(_, _)
Count(s, v) ==
  IF s = <<>> THEN 0
  ELSE (IF Head(s) = v THEN 1 ELSE 0) + Count(Tail(s), v)

SameBag(s, t) ==
  /\ Len(s) = Len(t)
  /\ \A k \in 1..Len(s) : Count(s, s[k]) = Count(t, s[k])

RemoveAt(s, k) == [j \in 1..(Len(s) - 1) |-> IF j < k THEN s[j] ELSE s[j + 1]]


\* the getCachedAppList calls of a run
Calls == 1..MaxCalls

\* let appListCache: AppListCache | null = null  (apps = 0 stands for null;
\* a snapshot is identified by the fetch that produced it, 1, 2, ...)
NoCache == [apps |-> 0, timestamp |-> 0]

\* ------------------------------------------------- parts not in use
\* no getCachedAppList call has been made
CacheIdle ==
  /\ appListCache = NoCache
  /\ clock = 0
  /\ ticks = 0
  /\ callPc = [c \in Calls |-> "idle"]
  /\ callNow = [c \in Calls |-> 0]
  /\ callFetch = [c \in Calls |-> 0]
  /\ callResult = [c \in Calls |-> 0]
  /\ fetchCount = 0
  /\ fetchIssuedAt = <<>>
  /\ writeLog = <<>>

\* no parallelMap call is in progress
FanIdle ==
  /\ tool = "parallelMap"
  /\ items = <<>>
  /\ concurrency = 1
  /\ stub = <<>>
  /\ gw = <<>>
  /\ pc = "loop"
  /\ next = 1
  /\ executing = <<>>
  /\ status = <<>>
  /\ results = <<>>
  /\ raceWinner = 0
  /\ sweepIdx = 0
  /\ settledFlag = FALSE
  /\ startLog = <<>>
  /\ windowFilled = FALSE
  /\ toolState = "running"
  /\ toolOutput = <<>>
  /\ steamId = <<>>
  /\ games = <<>>
  /\ topCalls = 0
  /\ steam_id = <<>>
  /\ defaultSteamId = <<>>

\* no identifier is being converted
IdIdle ==
  /\ idPc = "input"
  /\ accountId = <<>>
  /\ steamIdStr = <<>>
  /\ accountBack = <<>>

\* no enrichment join is running
JoinIdle ==
  /\ joinTool = "get_trade_offers"
  /\ joinFlag = FALSE
  /\ primary = <<>>
  /\ primaryRecv = <<>>
  /\ known = {}
  /\ joinPc = "start"
  /\ joinRequests = <<>>
  /\ joinChunks = <<>>
  /\ joinMap = {}
  /\ joinOut = <<>>
  /\ joinOutRecv = <<>>
  /\ joinOutcome = "running"
  /\ joinCalls = 0

\* no single-call tool is running
NoArgs == [address |-> <<>>, limit |-> <<>>, offset |-> 0, sort_by |-> "playtime"]
RqIdle ==
  /\ rqTool = "get_owned_games"
  /\ rqArgs = NoArgs
  /\ rqPc = "start"
  /\ rqCalls = 0
  /\ rqAnswer = <<>>
  /\ rqOutcome = "none"
  /\ rqOut = <<>>

\* =====================================================================
\*  The mapping operations handed to parallelMap
\* =====================================================================
Callers == {"parallelMap", "get_perfect_games", "get_achievement_summary",
            "get_player_summary", "get_friends_list"}
StubKinds == {"value", "null", "reject"}

\* steam.getPlayerAchievements(id, appid): the request throws (ok = FALSE) or
\* yields playerstats with a success flag and the achieved flags of its
\* achievements (<<>> also stands for a missing achievements array).
GwError == [ok |-> FALSE, success |-> FALSE, achieved |-> <<>>]
GwResponses ==
  { GwError,
    [ok |-> TRUE, success |-> FALSE, achieved |-> <<>>],
    [ok |-> TRUE, success |-> FALSE, achieved |-> <<1>>],
    [ok |-> TRUE, success |-> TRUE,  achieved |-> <<>>],
    [ok |-> TRUE, success |-> TRUE,  achieved |-> <<1>>],
    [ok |-> TRUE, success |-> TRUE,  achieved |-> <<1, 0>>],
    [ok |-> TRUE, success |-> TRUE,  achieved |-> <<1, 1>>] }

Entry(appid, total, unlocked) ==
  [appid |-> appid, achievement_count |-> total, unlocked |-> unlocked]
NoEntry == Entry(0, 0, 0)
ResolveNull == [kind |-> "null", value |-> NoEntry]

\* A test double: resolves to a value, resolves to null, or rejects.
StubFn(item, s) == [kind |-> s, value |-> Entry(item, 0, 0)]

\* achievements.filter((a) => a.achieved === 1).length
Unlocked(achieved) == Count(achieved, 1)

\* the same operation without its try/catch
PerfectGamesFn_NoCatch(item, r) ==
  IF ~r.ok THEN [kind |-> "reject", value |-> NoEntry]
  ELSE IF r.success /\ Len(r.achieved) > 0 /\ Unlocked(r.achieved) = Len(r.achieved)
       THEN [kind |-> "value", value |-> Entry(item, Len(r.achieved), Unlocked(r.achieved))]
       ELSE ResolveNull

\* get_perfect_games: async (game) => { try { ... } catch { } return null; }
PerfectGamesFn(item, r) ==
  IF ~r.ok THEN ResolveNull
  ELSE IF r.success /\ Len(r.achieved) > 0
       THEN IF Unlocked(r.achieved) = Len(r.achieved)
            THEN [kind |-> "value",
                  value |-> Entry(item, Len(r.achieved), Unlocked(r.achieved))]
            ELSE ResolveNull
       ELSE ResolveNull

\* get_achievement_summary: async (game) => { try { ... } catch { } return null; }
AchievementSummaryFn(item, r) ==
  IF ~r.ok THEN ResolveNull
  ELSE IF r.success /\ Len(r.achieved) > 0
       THEN [kind |-> "value",
             value |-> Entry(item, Len(r.achieved), Unlocked(r.achieved))]
       ELSE ResolveNull

\* fn(items[i]): how the operation of item i settles
FnOutcome(i) ==
  CASE tool = "parallelMap"             -> StubFn(items[i], stub[i])
    [] tool = "get_perfect_games"       -> PerfectGamesFn(items[i], gw[i])
    [] tool = "get_achievement_summary" -> AchievementSummaryFn(items[i], gw[i])

\* =====================================================================
\*  parallelMap
\* =====================================================================
\* the .then callback pushing nulls too
PushResult_KeepNull(res, out) == Append(res, out.value)

\* .then((result) => { if (result !== null) results.push(result); })
PushResult(res, out) ==
  IF out.kind # "null" THEN Append(res, out.value) ELSE res

\* the loop skipping an element
LoopAdvance_Skip(k) == k + 2

\* for (const item of items): the iterator moves to the following element
LoopAdvance(k) == k + 1

\* if (executing.length >= concurrency)
WindowFull(exec, limit) == Len(exec) >= limit

\* Promise.race(executing) called with members that have already settled is
\* settled by the first of them in array order (their reaction jobs are
\* queued in iteration order); 0 when every member is still pending.
FirstSettled(exec, st) ==
  IF \E k \in 1..Len(exec) : st[exec[k]] # "pending"
  THEN CHOOSE k \in 1..Len(exec) :
         /\ st[exec[k]] # "pending"
         /\ \A j \in 1..(k - 1) : st[exec[j]] = "pending"
  ELSE 0

\* Promise.race([executing[i].then(() => true), Promise.resolve(false)]):
\* number of microtask jobs that run before each contestant reaches the
\* race's resolve function.  Promise.resolve(false) is already fulfilled, so
\* the race's own reaction on it is the first job.  executing[i].then(..)
\* is a NEW promise: when executing[i] has settled, one job runs the
\* callback and fulfils it, and only a second job passes `true` to the race.
ResolvedFalseJobs == 1
ThenTrueJobs == 2

\* const settled = await Promise.race([...]): the first contestant to reach
\* the race's resolve function decides (a pending or rejected executing[i]
\* never delivers `true`).
SweepSettled(st) == st = "fulfilled" /\ ThenTrueJobs < ResolvedFalseJobs

\* Promise.all treated like Promise.race: never settled for an empty list
AllFulfilled_NonEmpty(exec, st) ==
  Len(exec) > 0 /\ \A k \in 1..Len(exec) : st[exec[k]] = "fulfilled"

\* a Promise.all that never rejects
AnyRejected_Never(exec, st) == FALSE

\* a missing `await Promise.all(executing)`
AllFulfilled_NoWait(exec, st) == TRUE

\* Promise.allSettled in place of Promise.all
AllFulfilled_AllSettled(exec, st) == \A k \in 1..Len(exec) : st[exec[k]] # "pending"

\* await Promise.all(executing) resolves when every member is fulfilled
AllFulfilled(exec, st) == \A k \in 1..Len(exec) : st[exec[k]] = "fulfilled"

\* await Promise.all(executing) rejects as soon as one member is rejected
AnyRejected(exec, st) == \E k \in 1..Len(exec) : st[exec[k]] = "rejected"

\* parallelMap is suspended at an await (or over): only then do the
\* reactions of the operations run
Suspended == pc \in {"race", "sweep", "all", "returned", "failed"}

NumUnsettled == Cardinality({i \in 1..Len(items) : status[i] = "pending"})

\* perfectGames.sort((a, b) => b.achievement_count - a.achievement_count):
\* Array.prototype.sort is stable
RECURSIVE InsertDesc(_, _)
InsertDesc(sorted, e) ==
  IF sorted = <<>> THEN <<e>>
  ELSE IF Head(sorted).achievement_count >= e.achievement_count
       THEN <<Head(sorted)>> \o InsertDesc(Tail(sorted), e)
       ELSE <<e>> \o sorted

RECURSIVE SortByCountDesc(_)
SortByCountDesc(s) ==
  IF s = <<>> THEN <<>>
  ELSE InsertDesc(SortByCountDesc(SubSeq(s, 1, Len(s) - 1)), s[Len(s)])

\* A direct parallelMap call starts in its loop; a tool handler starts at its
\* first statement and gets its items from its arguments or its top-level call.
InitFan ==
  /\ tool \in Callers
  /\ items \in (IF tool = "parallelMap"
                THEN {[i \in 1..n |-> i] : n \in 0..MaxItems}
                ELSE {<<>>})
  /\ concurrency \in (IF tool = "parallelMap" THEN 1..MaxLimit ELSE {ToolConcurrency})
  /\ stub \in (IF tool = "parallelMap" THEN [1..Len(items) -> StubKinds] ELSE {<<>>})
  /\ gw = [i \in 1..Len(items) |-> GwError]
  /\ pc = (IF tool = "parallelMap" THEN "loop" ELSE "idle")
  /\ next = 1
  /\ executing = <<>>
  /\ status = [i \in 1..Len(items) |-> "unstarted"]
  /\ results = <<>>
  /\ raceWinner = 0
  /\ sweepIdx = 0
  /\ settledFlag = FALSE
  /\ startLog = <<>>
  /\ windowFilled = FALSE
  /\ toolState = (IF tool = "parallelMap" THEN "running" ELSE "start")
  /\ toolOutput = <<>>
  /\ steamId = <<>>
  /\ games = <<>>
  /\ topCalls = 0
  /\ steam_id = <<>>
  /\ defaultSteamId = <<>>
  /\ CacheIdle
  /\ IdIdle
  /\ JoinIdle
  /\ RqIdle

\* One iteration of the for-of loop up to its await:
\*   const p = fn(item).then(...); executing.push(p);
\*   if (executing.length >= concurrency) await Promise.race(executing);
Launch ==
  /\ pc = "loop"
  /\ next <= Len(items)
  /\ LET exec2 == Append(executing, next)
         st2   == [status EXCEPT ![next] = "pending"]
     IN  /\ executing' = exec2
         /\ status' = st2
         /\ startLog' = Append(startLog, next)
         /\ next' = LoopAdvance(next)
         /\ IF WindowFull(exec2, concurrency)
            THEN /\ pc' = "race"
                 /\ raceWinner' = FirstSettled(exec2, st2)
                 /\ windowFilled' = TRUE
            ELSE /\ pc' = "loop"
                 /\ raceWinner' = 0
                 /\ UNCHANGED windowFilled
  /\ UNCHANGED outsideFan
  /\ UNCHANGED handlerVars
  /\ UNCHANGED <<tool, items, concurrency, stub, gw, results, sweepIdx,
                 settledFlag, toolState, toolOutput>>

\* The loop is exhausted: await Promise.all(executing)
LoopExit ==
  /\ pc = "loop"
  /\ next > Len(items)
  /\ pc' = "all"
  /\ UNCHANGED outsideFan
  /\ UNCHANGED handlerVars
  /\ UNCHANGED <<tool, items, concurrency, stub, gw, next, executing, status,
                 results, raceWinner, sweepIdx, settledFlag, startLog,
                 windowFilled, toolState, toolOutput>>

\* The operation of item i settles: fn(item) resolves and the .then callback
\* runs, or fn(item) rejects and p rejects with it.
Settle(i) ==
  /\ Suspended
  /\ status[i] = "pending"
  /\ LET out == FnOutcome(i)
     IN  /\ status' = [status EXCEPT
                         ![i] = IF out.kind = "reject" THEN "rejected" ELSE "fulfilled"]
         /\ results' = IF out.kind = "reject" THEN results ELSE PushResult(results, out)
  /\ raceWinner' = IF pc = "race" /\ raceWinner = 0
                   THEN CHOOSE k \in 1..Len(executing) : executing[k] = i
                   ELSE raceWinner
  /\ UNCHANGED outsideFan
  /\ UNCHANGED handlerVars
  /\ UNCHANGED <<tool, items, concurrency, stub, gw, pc, next, executing,
                 sweepIdx, settledFlag, startLog, windowFilled, toolState,
                 toolOutput>>

\* await Promise.race(executing) completes: it throws when the member that
\* settled it is rejected, otherwise the removal loop starts at the last index
\* and suspends at its first await.
RaceResume ==
  /\ pc = "race"
  /\ raceWinner # 0
  /\ IF status[executing[raceWinner]] = "rejected"
     THEN /\ pc' = "failed"
          /\ UNCHANGED <<sweepIdx, settledFlag>>
     ELSE /\ pc' = "sweep"
          /\ sweepIdx' = Len(executing)
          /\ settledFlag' = SweepSettled(status[executing[Len(executing)]])
  /\ raceWinner' = 0
  /\ UNCHANGED outsideFan
  /\ UNCHANGED handlerVars
  /\ UNCHANGED <<tool, items, concurrency, stub, gw, next, executing, status,
                 results, startLog, windowFilled, toolState, toolOutput>>

\* One iteration of the removal loop resumes from its await:
\*   if (settled) executing.splice(i, 1);
\* then the next iteration suspends, or the for-of loop continues.
SweepStep ==
  /\ pc = "sweep"
  /\ LET exec2 == IF settledFlag THEN RemoveAt(executing, sweepIdx) ELSE executing
     IN  /\ executing' = exec2
         /\ IF sweepIdx > 1
            THEN /\ pc' = "sweep"
                 /\ sweepIdx' = sweepIdx - 1
                 /\ settledFlag' = SweepSettled(status[exec2[sweepIdx - 1]])
            ELSE /\ pc' = "loop"
                 /\ sweepIdx' = 0
                 /\ settledFlag' = FALSE
  /\ UNCHANGED outsideFan
  /\ UNCHANGED handlerVars
  /\ UNCHANGED <<tool, items, concurrency, stub, gw, next, status, results,
                 raceWinner, startLog, windowFilled, toolState, toolOutput>>

\* await Promise.all(executing); return results;
AllResolve ==
  /\ pc = "all"
  /\ AllFulfilled(executing, status)
  /\ pc' = "returned"
  /\ UNCHANGED outsideFan
  /\ UNCHANGED handlerVars
  /\ UNCHANGED <<tool, items, concurrency, stub, gw, next, executing, status,
                 results, raceWinner, sweepIdx, settledFlag, startLog,
                 windowFilled, toolState, toolOutput>>

\* await Promise.all(executing) throws
AllReject ==
  /\ pc = "all"
  /\ AnyRejected(executing, status)
  /\ pc' = "failed"
  /\ UNCHANGED outsideFan
  /\ UNCHANGED handlerVars
  /\ UNCHANGED <<tool, items, concurrency, stub, gw, next, executing, status,
                 results, raceWinner, sweepIdx, settledFlag, startLog,
                 windowFilled, toolState, toolOutput>>

\* The caller resumes from `await parallelMap(...)` with the list:
\* get_perfect_games sorts it, get_achievement_summary serialises it as is.
HandlerReturn ==
  /\ pc = "returned"
  /\ toolState = "running"
  /\ toolState' = "returned"
  /\ toolOutput' = IF tool = "get_perfect_games"
                   THEN SortByCountDesc(results)
                   ELSE results
  /\ UNCHANGED outsideFan
  /\ UNCHANGED handlerVars
  /\ UNCHANGED <<tool, items, concurrency, stub, gw, pc, next, executing,
                 status, results, raceWinner, sweepIdx, settledFlag, startLog,
                 windowFilled>>

\* `await parallelMap(...)` throws in the caller, which has no try/catch
HandlerReject ==
  /\ pc = "failed"
  /\ toolState = "running"
  /\ toolState' = "rejected"
  /\ UNCHANGED outsideFan
  /\ UNCHANGED handlerVars
  /\ UNCHANGED <<tool, items, concurrency, stub, gw, pc, next, executing,
                 status, results, raceWinner, sweepIdx, settledFlag, startLog,
                 windowFilled, toolOutput>>


\* =====================================================================
\*  The tool handlers up to their parallelMap call
\* =====================================================================
\* Steam ids are decimal strings: sequences of character codes, 0..9 for the
\* digits and NonDigit for any other character.
NonDigit == 10
ProvidedId == <<7, 6, 5, 6, 1, 1, 9, 8, 0, 0, 0, 0, 0, 0, 0, 0, 0>>
DefaultId == <<7, 6, 5, 6, 1, 1, 9, 8, 0, 0, 0, 0, 0, 0, 0, 0, 1>>

\* steam_id as the handler receives it: absent, or a string that passed
\* steamIdSchema
ProvidedIds == {<<>>, ProvidedId}

\* process.env.STEAM_ID: unset, well formed, too short, or with a non-digit
DefaultIds ==
  {<<>>, DefaultId, <<7, 6, 5>>, [k \in 1..17 |-> IF k = 17 THEN NonDigit ELSE 7]}

\* STEAM_ID_REGEX = /^[0-9]{17}$/
isValidSteamId(id) == Len(id) = 17 /\ \A k \in 1..17 : id[k] \in 0..9

\* getSteamId without its format check
getSteamId_NoFormatCheck(providedId, default) ==
  LET id == IF providedId # <<>> THEN providedId ELSE default
  IN IF id = <<>> THEN [ok |-> FALSE, id |-> <<>>] ELSE [ok |-> TRUE, id |-> id]

\* getSteamId(providedId): ok = FALSE when it throws
getSteamId(providedId, default) ==
  LET id == IF providedId # <<>> THEN providedId ELSE default
  IN IF id = <<>> THEN [ok |-> FALSE, id |-> <<>>]
     ELSE IF ~isValidSteamId(id) THEN [ok |-> FALSE, id |-> <<>>]
     ELSE [ok |-> TRUE, id |-> id]

\* the tools that drive parallelMap
Tools == {"get_perfect_games", "get_achievement_summary"}

\* the handler body is wrapped in try { ... } catch (error) { return text }
HasTryCatch(t) == t = "get_friends_list"

\* how the handler ends when getSteamId or its top-level call throws
FailureOutcome(t) == IF HasTryCatch(t) THEN "error_text" ELSE "rejected"

\* a record of the top-level answer
Game(appid, stats, playtime) ==
  [appid |-> appid, has_community_visible_stats |-> stats, playtime_forever |-> playtime]

\* answers of steam.getOwnedGames: distinct app ids, any flags
OwnedLists ==
  UNION {{[i \in 1..n |-> Game(i, f[i][1], f[i][2])] : f \in [1..n -> BOOLEAN \X {0, 1}]} :
           n \in 0..MaxItems}

\* answers of the other top-level calls: distinct records
PlainLists == {[i \in 1..n |-> Game(i, TRUE, 1)] : n \in 0..MaxItems}

\* app_ids: absent (or empty), or distinct app ids
AppIdLists == {[i \in 1..n |-> i] : n \in 0..MaxItems}

\* the filter without its playtime condition
GamesWithAchievements_AnyPlaytime(list) ==
  SelectSeq(list, LAMBDA g : g.has_community_visible_stats)

\* games.filter((g) => g.has_community_visible_stats && g.playtime_forever > 0)
GamesWithAchievements(list) ==
  SelectSeq(list, LAMBDA g : g.has_community_visible_stats /\ g.playtime_forever > 0)

\* the list handed to parallelMap
GamesToCheck(t, list) ==
  IF t = "get_perfect_games" THEN GamesWithAchievements(list) ELSE list

AppIdsOf(list) == [i \in 1..Len(list) |-> list[i].appid]

\* The handler runs from its first statement to its first await: getSteamId,
\* then parallelMap on app_ids (get_achievement_summary) or the top-level call.
HandlerStart ==
  /\ tool # "parallelMap"
  /\ toolState = "start"
  /\ \E providedId \in ProvidedIds, default \in DefaultIds, app_ids \in AppIdLists :
       LET r == getSteamId(providedId, default)
       IN /\ steam_id' = providedId
          /\ defaultSteamId' = default
          /\ IF ~r.ok
               THEN /\ toolState' = FailureOutcome(tool)
                    /\ UNCHANGED <<items, gw, status, pc, steamId, topCalls>>
               ELSE /\ steamId' = r.id
                    /\ IF tool = "get_achievement_summary" /\ Len(app_ids) > 0
                         THEN /\ items' = app_ids
                              /\ gw' \in [1..Len(app_ids) -> GwResponses]
                              /\ status' = [i \in 1..Len(app_ids) |-> "unstarted"]
                              /\ pc' = "loop"
                              /\ toolState' = "running"
                              /\ UNCHANGED topCalls
                         ELSE /\ toolState' = "top"
                              /\ topCalls' = topCalls + 1
                              /\ UNCHANGED <<items, gw, status, pc>>
  /\ UNCHANGED outsideFan
  /\ UNCHANGED <<tool, concurrency, stub, next, executing, results, raceWinner,
                 sweepIdx, settledFlag, startLog, windowFilled, toolOutput, games>>

\* get_perfect_games / get_achievement_summary resume from their top-level
\* call (getOwnedGames / getRecentlyPlayedGames) and call parallelMap.
TopCallOk ==
  /\ tool \in Tools
  /\ toolState = "top"
  /\ \E list \in (IF tool = "get_perfect_games" THEN OwnedLists ELSE PlainLists) :
       LET toCheck == GamesToCheck(tool, list)
       IN /\ games' = list
          /\ items' = AppIdsOf(toCheck)
          /\ gw' \in [1..Len(toCheck) -> GwResponses]
          /\ status' = [i \in 1..Len(toCheck) |-> "unstarted"]
  /\ pc' = "loop"
  /\ toolState' = "running"
  /\ UNCHANGED <<steam_id, defaultSteamId>>
  /\ UNCHANGED outsideFan
  /\ UNCHANGED <<tool, concurrency, stub, next, executing, results, raceWinner,
                 sweepIdx, settledFlag, startLog, windowFilled, toolOutput,
                 steamId, topCalls>>

\* get_player_summary / get_friends_list resume from their only call and
\* return its answer as text.
SingleCallOk ==
  /\ tool \in {"get_player_summary", "get_friends_list"}
  /\ toolState = "top"
  /\ games' \in PlainLists
  /\ toolOutput' = games'
  /\ toolState' = "returned"
  /\ UNCHANGED <<steam_id, defaultSteamId>>
  /\ UNCHANGED outsideFan
  /\ UNCHANGED <<tool, items, concurrency, stub, gw, pc, next, executing, status,
                 results, raceWinner, sweepIdx, settledFlag, startLog,
                 windowFilled, steamId, topCalls>>

\* The top-level call throws (request: !response.ok).
TopCallFail ==
  /\ tool # "parallelMap"
  /\ toolState = "top"
  /\ toolState' = FailureOutcome(tool)
  /\ UNCHANGED <<steam_id, defaultSteamId>>
  /\ UNCHANGED outsideFan
  /\ UNCHANGED <<tool, items, concurrency, stub, gw, pc, next, executing, status,
                 results, raceWinner, sweepIdx, settledFlag, startLog,
                 windowFilled, toolOutput, steamId, games, topCalls>>


\* =====================================================================
\*  getCachedAppList
\* =====================================================================
\* amounts by which Date.now() advances between two steps
TickSteps == {1, APP_LIST_CACHE_TTL - 1, APP_LIST_CACHE_TTL}

\* a snapshot still served when exactly TTL old
IsFresh_Inclusive(cache, now) ==
  cache # NoCache /\ (now - cache.timestamp) <= APP_LIST_CACHE_TTL

\* appListCache && (now - appListCache.timestamp) < APP_LIST_CACHE_TTL
IsFresh(cache, now) ==
  cache # NoCache /\ (now - cache.timestamp) < APP_LIST_CACHE_TTL

\* a refresh that never lets the stored timestamp go back
WriteCache_MaxTimestamp(cache, apps, now) ==
  [apps |-> apps,
   timestamp |-> IF cache # NoCache /\ cache.timestamp > now THEN cache.timestamp ELSE now]

\* a refresh that patches the snapshot into the existing entry
WriteCache_KeepTimestamp(cache, apps, now) ==
  IF cache = NoCache THEN [apps |-> apps, timestamp |-> now]
  ELSE [apps |-> apps, timestamp |-> cache.timestamp]

\* a refresh that keeps the entry with the newer timestamp
WriteCache_NewestWins(cache, apps, now) ==
  IF cache # NoCache /\ cache.timestamp > now THEN cache
  ELSE [apps |-> apps, timestamp |-> now]

\* appListCache = { apps, timestamp: now };
WriteCache(cache, apps, now) == [apps |-> apps, timestamp |-> now]

\* a failed refresh that drops the stored entry
CacheAfterFailure_Clear(cache) == NoCache

\* steam.getAppList() rejects at the await: the assignment is never reached
CacheAfterFailure(cache) == cache

InitCache ==
  /\ appListCache = NoCache
  /\ clock = 0
  /\ ticks = 0
  /\ callPc = [c \in Calls |-> "idle"]
  /\ callNow = [c \in Calls |-> 0]
  /\ callFetch = [c \in Calls |-> 0]
  /\ callResult = [c \in Calls |-> 0]
  /\ fetchCount = 0
  /\ fetchIssuedAt = <<>>
  /\ writeLog = <<>>
  /\ FanIdle
  /\ IdIdle
  /\ JoinIdle
  /\ RqIdle

\* Date.now() advances
Tick(d) ==
  /\ ticks < MaxTicks
  /\ clock' = clock + d
  /\ ticks' = ticks + 1
  /\ UNCHANGED outsideCache
  /\ UNCHANGED <<appListCache, callPc, callNow, callFetch, callResult,
                 fetchCount, fetchIssuedAt, writeLog>>

\* getCachedAppList() is called and runs to its return or to its await:
\*   const now = Date.now();
\*   if (fresh) return appListCache.apps;
\*   const apps = await steam.getAppList();
GetCachedAppList(c) ==
  /\ callPc[c] = "idle"
  /\ \A d \in 1..(c - 1) : callPc[d] # "idle"   \* calls are numbered in call order
  /\ callNow' = [callNow EXCEPT ![c] = clock]
  /\ IF IsFresh(appListCache, clock)
     THEN /\ callPc' = [callPc EXCEPT ![c] = "returned"]
          /\ callResult' = [callResult EXCEPT ![c] = appListCache.apps]
          /\ UNCHANGED <<callFetch, fetchCount, fetchIssuedAt>>
     ELSE /\ callPc' = [callPc EXCEPT ![c] = "fetching"]
          /\ fetchCount' = fetchCount + 1
          /\ callFetch' = [callFetch EXCEPT ![c] = fetchCount + 1]
          /\ fetchIssuedAt' = Append(fetchIssuedAt, clock)
          /\ UNCHANGED callResult
  /\ UNCHANGED outsideCache
  /\ UNCHANGED <<appListCache, clock, ticks, writeLog>>

\* the fetch of call c resolves:
\*   appListCache = { apps, timestamp: now }; return apps;
FetchSucceed(c) ==
  /\ callPc[c] = "fetching"
  /\ appListCache' = WriteCache(appListCache, callFetch[c], callNow[c])
  /\ writeLog' = Append(writeLog, callFetch[c])
  /\ callPc' = [callPc EXCEPT ![c] = "returned"]
  /\ callResult' = [callResult EXCEPT ![c] = callFetch[c]]
  /\ UNCHANGED outsideCache
  /\ UNCHANGED <<clock, ticks, callNow, callFetch, fetchCount, fetchIssuedAt>>

\* the fetch of call c rejects: getCachedAppList rejects
FetchFail(c) ==
  /\ callPc[c] = "fetching"
  /\ appListCache' = CacheAfterFailure(appListCache)
  /\ callPc' = [callPc EXCEPT ![c] = "failed"]
  /\ UNCHANGED outsideCache
  /\ UNCHANGED <<clock, ticks, callNow, callFetch, callResult, fetchCount,
                 fetchIssuedAt, writeLog>>

\* =====================================================================
\*  Specifications
\* =====================================================================
NextFan ==
  \/ Launch
  \/ LoopExit
  \/ \E i \in 1..Len(items) : Settle(i)
  \/ RaceResume
  \/ SweepStep
  \/ AllResolve
  \/ AllReject
  \/ HandlerReturn
  \/ HandlerReject
  \/ HandlerStart
  \/ TopCallOk
  \/ SingleCallOk
  \/ TopCallFail

SpecFanOut == InitFan /\ [][NextFan]_vars


NextCache ==
  \/ \E d \in TickSteps : Tick(d)
  \/ \E c \in Calls : GetCachedAppList(c)
  \/ \E c \in Calls : FetchSucceed(c)
  \/ \E c \in Calls : FetchFail(c)

SpecCache == InitCache /\ [][NextCache]_vars


\* =====================================================================
\*  Properties of parallelMap and its callers (SpecFanOut)
\* =====================================================================
\* the non-null results of applying fn once to each of the first k items
RECURSIVE NonNullResults(_)
NonNullResults(k) ==
  IF k = 0 THEN <<>>
  ELSE NonNullResults(k - 1) \o
       (IF FnOutcome(k).kind = "value" THEN <<FnOutcome(k).value>> ELSE <<>>)

\* the achievements call of an item succeeded and the item qualifies for the tool
Qualifies(r) ==
  /\ r.ok /\ r.success /\ Len(r.achieved) > 0
  /\ (tool = "get_perfect_games" => \A k \in 1..Len(r.achieved) : r.achieved[k] = 1)

RECURSIVE QualifiedEntries(_)
QualifiedEntries(k) ==
  IF k = 0 THEN <<>>
  ELSE QualifiedEntries(k - 1) \o
       (IF Qualifies(gw[k])
        THEN <<Entry(items[k], Len(gw[k].achieved), Unlocked(gw[k].achieved))>>
        ELSE <<>>)

\* C1: once the window has first filled, the number of started but unsettled
\* operations never exceeds the limit.
C1_WindowBound == windowFilled => NumUnsettled <= concurrency

\* C2: for a non-empty input whose operations all resolve, the returned list
\* is, as a multiset, exactly the non-null results of the items.
C2_OutputIsNonNullResults ==
  (Len(items) > 0 /\ pc = "returned") => SameBag(results, NonNullResults(Len(items)))

C2_Witness ==
  /\ pc = "returned" /\ tool = "parallelMap" /\ windowFilled
  /\ \E i \in 1..Len(items) : stub[i] = "null"
  /\ Len(results) = 2 /\ results[1].appid > results[2].appid

\* C3: parallelMap returns only after every operation it started has settled,
\* and nothing is appended to the returned list afterwards.
C3_ReturnsAfterAllSettled ==
  /\ [](pc = "returned" =>
          /\ NumUnsettled = 0
          /\ \A i \in 1..Len(items) : status[i] = "fulfilled")
  /\ [][pc = "returned" => results' = results]_vars

C3_Witness ==
  /\ pc = "returned" /\ windowFilled
  /\ Len(startLog) > concurrency /\ Len(results) = Len(items) /\ Len(items) >= 3

\* C4 as stated: when the call is over, fn has been started exactly once for
\* each element, in input order.
C4_StartedOncePerItem ==
  pc \in {"returned", "failed"} => startLog = [i \in 1..Len(items) |-> i]

\* C4 amended: fn is started at most once per element, in input order; every
\* element has been started once the loop is over, and elements are left
\* unstarted only by a call that failed on a rejected operation.
C4_StartsInOrderAtMostOnce ==
  /\ Len(startLog) <= Len(items)
  /\ startLog = [i \in 1..Len(startLog) |-> i]
  /\ pc \in {"all", "returned"} => Len(startLog) = Len(items)
  /\ (pc = "failed" /\ Len(startLog) < Len(items)) =>
        \E i \in 1..Len(items) : status[i] = "rejected"

C4_Witness ==
  /\ pc = "returned" /\ windowFilled /\ tool = "parallelMap"
  /\ Len(items) >= 3 /\ startLog = [i \in 1..Len(items) |-> i]
  /\ \E i \in 1..Len(items) : stub[i] = "null"
  /\ concurrency = 2

\* C5: in the two tools, once parallelMap is called, a failing achievements
\* call never fails the tool and never rejects the mapping operation; the
\* output holds exactly the entries of the items whose call succeeded and
\* qualified.
C5_FailuresContained ==
  (tool \in Tools /\ pc # "idle") =>
    /\ pc # "failed"
    /\ toolState # "rejected"
    /\ \A i \in 1..Len(items) : status[i] # "rejected"
    /\ toolState = "returned" =>
          SameBag(toolOutput, QualifiedEntries(Len(items)))

C5_Witness ==
  /\ tool \in Tools /\ toolState = "returned"
  /\ \E i \in 1..Len(items) : ~gw[i].ok
  /\ \E i \in 1..Len(items) : Qualifies(gw[i])
  /\ Len(toolOutput) >= 1 /\ Len(toolOutput) < Len(items)

\* C6: if any operation rejects, parallelMap never returns a list.
C6_RejectionIsFatal ==
  (\E i \in 1..Len(items) : FnOutcome(i).kind = "reject") =>
     (pc # "returned" /\ toolState # "returned")

C6_Witness ==
  /\ pc = "failed" /\ toolState = "rejected" /\ windowFilled
  /\ results # <<>>
  /\ \E i \in 2..Len(items) : status[i] = "rejected"
  /\ status[1] = "fulfilled"

\* =====================================================================
\*  Properties of getCachedAppList (SpecCache)
\* =====================================================================
Last(s) == s[Len(s)]

\* C7: a call fetches iff no snapshot is stored or now - timestamp >= TTL; a
\* hit returns the stored snapshot without a fetch, a miss issues exactly one.
C7_FetchIffExpired ==
  [][ /\ \A c \in Calls :
           (callPc[c] = "idle" /\ callPc'[c] # "idle") =>
              IF appListCache # NoCache
                 /\ clock - appListCache.timestamp < APP_LIST_CACHE_TTL
              THEN /\ fetchCount' = fetchCount
                   /\ callPc'[c] = "returned"
                   /\ callResult'[c] = appListCache.apps
                   /\ appListCache' = appListCache
              ELSE /\ fetchCount' = fetchCount + 1
                   /\ callPc'[c] = "fetching"
                   /\ callFetch'[c] = fetchCount + 1
      /\ (\A c \in Calls : callPc[c] = "idle" => callPc'[c] = "idle")
            => fetchCount' = fetchCount
    ]_vars

C7_Witness ==
  \E a, b, c \in Calls :
     /\ callPc[a] = "returned" /\ callNow[a] = 0 /\ callFetch[a] = 1
     /\ callPc[b] = "returned" /\ callNow[b] = APP_LIST_CACHE_TTL - 1
     /\ callFetch[b] = 0 /\ callResult[b] = 1
     /\ callPc[c] = "returned" /\ callNow[c] = APP_LIST_CACHE_TTL
     /\ callFetch[c] = 2 /\ callResult[c] = 2
     /\ fetchCount = 2

\* C8: a failed fetch was the call's only attempt, fails only that call and
\* leaves the cache exactly as it was.
C8_FailureLeavesCache ==
  [][ \A c \in Calls :
        (callPc[c] = "fetching" /\ callPc'[c] = "failed") =>
           /\ appListCache' = appListCache
           /\ fetchCount' = fetchCount
           /\ callFetch[c] # 0 /\ callFetch'[c] = callFetch[c]
           /\ callResult'[c] = 0
           /\ \A d \in Calls \ {c} :
                 callPc'[d] = callPc[d] /\ callResult'[d] = callResult[d]
    ]_vars

C8_Witness ==
  \E c, d \in Calls :
     /\ callPc[c] = "failed" /\ callFetch[c] > 1
     /\ appListCache # NoCache
     /\ callPc[d] = "fetching" /\ callNow[d] > callNow[c]
     /\ callFetch[d] > callFetch[c]

\* C9: the stored snapshot is the result of one fetch, paired with the
\* timestamp of the call that fetched it; both are written in one step.
C9_SnapshotPairedWithTimestamp ==
  /\ [](appListCache # NoCache =>
          /\ appListCache.apps \in 1..fetchCount
          /\ appListCache.timestamp = fetchIssuedAt[appListCache.apps])
  /\ [][appListCache' # appListCache =>
          \E c \in Calls :
             /\ callPc[c] = "fetching" /\ callPc'[c] = "returned"
             /\ appListCache' = [apps |-> callFetch[c], timestamp |-> callNow[c]]
       ]_vars

C9_Witness ==
  /\ Len(writeLog) >= 2
  /\ appListCache.apps = Last(writeLog)
  /\ appListCache.timestamp > 0
  /\ fetchIssuedAt[writeLog[1]] # appListCache.timestamp

\* C10: overlapping calls on an empty or stale cache each issue their own
\* fetch and return its result; the cache holds the result stored last.
C10_NoCoalescingLastWriteWins ==
  /\ \A c, d \in Calls :
        (c # d /\ callFetch[c] # 0 /\ callFetch[d] # 0) => callFetch[c] # callFetch[d]
  /\ \A c \in Calls :
        (callPc[c] = "returned" /\ callFetch[c] # 0) => callResult[c] = callFetch[c]
  /\ Cardinality({c \in Calls : callFetch[c] # 0}) = fetchCount
  /\ writeLog # <<>> =>
        appListCache = [apps |-> Last(writeLog),
                        timestamp |-> fetchIssuedAt[Last(writeLog)]]

C10_Witness ==
  \E c, d \in Calls :
     /\ callFetch[c] = 1 /\ callFetch[d] = 2
     /\ callNow[c] < callNow[d]
     /\ writeLog = <<2, 1>>
     /\ callResult[c] = 1 /\ callResult[d] = 2
     /\ appListCache = [apps |-> 1, timestamp |-> callNow[c]]


\* =====================================================================
\*  Identifier-namespace transform (accountIdToSteamId and its reverse)
\* =====================================================================
\* Exact integers beyond 32 bits are kept as five limbs in base 10^4, most
\* significant first; a decimal string is a sequence of digits.
LimbBase == 10 * 10 * 10 * 10
NumLimbs == 5
NumDigits == 4 * NumLimbs

\* BigInt("...") of a decimal string
ParseBigInt(digits) ==
  LET pad == NumDigits - Len(digits)
      d   == [k \in 1..NumDigits |-> IF k <= pad THEN 0 ELSE digits[k - pad]]
  IN  [j \in 1..NumLimbs |->
         d[4 * j - 3] * 1000 + d[4 * j - 2] * 100 + d[4 * j - 1] * 10 + d[4 * j]]

\* bigint.toString(): decimal digits without leading zeros
BigToString(limbs) ==
  LET pow == <<1000, 100, 10, 1>>
      d   == [k \in 1..NumDigits |->
                (limbs[((k - 1) \div 4) + 1] \div pow[((k - 1) % 4) + 1]) % 10]
  IN  IF \A k \in 1..NumDigits : d[k] = 0 THEN <<0>>
      ELSE LET f == CHOOSE k \in 1..NumDigits :
                      d[k] # 0 /\ \A j \in 1..(k - 1) : d[j] = 0
           IN  SubSeq(d, f, NumDigits)

\* x + y on BigInt, limbs 1..k with the carry coming from limb k + 1
RECURSIVE AddLimbs(_, _, _, _)
AddLimbs(x, y, k, carry) ==
  IF k = 0 THEN <<>>
  ELSE LET sum == x[k] + y[k] + carry
       IN  AddLimbs(x, y, k - 1, sum \div LimbBase) \o <<sum % LimbBase>>

BigAdd(x, y) == AddLimbs(x, y, NumLimbs, 0)

\* x - y on BigInt (x >= y), limbs 1..k with the borrow of limb k + 1
RECURSIVE SubLimbs(_, _, _, _)
SubLimbs(x, y, k, borrow) ==
  IF k = 0 THEN <<>>
  ELSE LET diff == x[k] - y[k] - borrow
       IN  IF diff < 0
           THEN SubLimbs(x, y, k - 1, 1) \o <<diff + LimbBase>>
           ELSE SubLimbs(x, y, k - 1, 0) \o <<diff>>

BigSub(x, y) == SubLimbs(x, y, NumLimbs, 0)

\* const STEAM_ID_BASE = BigInt("76561197960265728");
STEAM_ID_BASE == ParseBigInt(<<7, 6, 5, 6, 1, 1, 9, 7, 9, 6, 0, 2, 6, 5, 7, 2, 8>>)

\* the sum taken on numbers: doubles of this size keep multiples of 16 only
accountIdToSteamId_Float(a) ==
  LET sum == BigAdd(STEAM_ID_BASE, a)
  IN  BigToString([sum EXCEPT ![NumLimbs] = sum[NumLimbs] - (sum[NumLimbs] % 16)])

\* (STEAM_ID_BASE + BigInt(accountId)).toString()
accountIdToSteamId(a) == BigToString(BigAdd(STEAM_ID_BASE, a))

\* Number(BigInt(player.steamid) - STEAM_ID_BASE)
SteamIdToAccountId(str) == BigSub(ParseBigInt(str), STEAM_ID_BASE)

\* a small account id as a number
AccountIdOf(n) == [j \in 1..NumLimbs |-> IF j = NumLimbs THEN n ELSE 0]

\* 32-bit account ids: 0 <= a < 2^32 = 42 9496 7296, with the limb values
\* around the carries of the sum and around 2^31 = 21 4748 3648
AccountIds ==
  { <<0, 0, h2, h1, l>> :
      h2 \in {0, 1, 21, 42},
      h1 \in {0, 3973, 3974, 4748, 9496, 9999},
      l  \in {0, 1, 3647, 3648, 4271, 4272, 7295, 7296, 9999} }
  \ { a \in { <<0, 0, 42, h1, l>> : h1 \in {9496, 9999}, l \in {0, 1, 3647, 3648, 4271, 4272, 7295, 7296, 9999} } :
        a[4] > 9496 \/ a[5] >= 7296 }

InitId ==
  /\ idPc = "input"
  /\ accountId \in AccountIds
  /\ steamIdStr = <<>>
  /\ accountBack = <<>>
  /\ FanIdle
  /\ CacheIdle
  /\ JoinIdle
  /\ RqIdle

\* accountIdToSteamId(accountId)
Forward ==
  /\ idPc = "input"
  /\ steamIdStr' = accountIdToSteamId(accountId)
  /\ idPc' = "forward"
  /\ UNCHANGED <<accountId, accountBack>>
  /\ UNCHANGED outsideId

\* const accountId = Number(BigInt(player.steamid) - STEAM_ID_BASE);
Reverse ==
  /\ idPc = "forward"
  /\ accountBack' = SteamIdToAccountId(steamIdStr)
  /\ idPc' = "reverse"
  /\ UNCHANGED <<accountId, steamIdStr>>
  /\ UNCHANGED outsideId

NextId ==
  \/ Forward
  \/ Reverse

SpecTransform == InitId /\ [][NextId]_vars

\* C16: for every 32-bit account id the forward transform is exactly
\* 76561197960265728 + a, the reverse transform gives a back, and distinct
\* account ids give distinct 64-bit ids.
C16_TransformExact ==
  /\ idPc \in {"forward", "reverse"} =>
        /\ Len(steamIdStr) = 17
        /\ \A k \in 1..17 : steamIdStr[k] \in 0..9
        /\ BigSub(ParseBigInt(steamIdStr), accountId) = <<7, 6561, 1979, 6026, 5728>>
        /\ accountId = <<0, 0, 0, 0, 0>> =>
              steamIdStr = <<7, 6, 5, 6, 1, 1, 9, 7, 9, 6, 0, 2, 6, 5, 7, 2, 8>>
        /\ accountId = <<0, 0, 42, 9496, 7295>> =>
              steamIdStr = <<7, 6, 5, 6, 1, 2, 0, 2, 2, 5, 5, 2, 3, 3, 0, 2, 3>>
        /\ \A b \in AccountIds : b # accountId => accountIdToSteamId(b) # steamIdStr
  /\ idPc = "reverse" => accountBack = accountId

C16_Witness ==
  /\ idPc = "reverse"
  /\ accountId = <<0, 0, 42, 9496, 7295>>
  /\ accountBack = accountId
  /\ steamIdStr[6] = 2

\* =====================================================================
\*  Enrichment joins: a primary fetch, then a secondary fetch keyed by a
\*  field of the primary records, merged back onto the primary records
\* =====================================================================
MaxKey == 2
MaxPrimary == 3
MaxReceived == 1
MaxIdsPerRequest == 100
Undefined == 0

JoinTools == {"get_trade_offers", "getFriendList", "getBadges", "getWishlist"}
BigSizes == {MaxIdsPerRequest, MaxIdsPerRequest + 1, MaxIdsPerRequest + 50}

Range(s) == {s[i] : i \in 1..Len(s)}

RECURSIVE Dedup(_)
Dedup(s) ==
  IF Len(s) <= 1 THEN s
  ELSE LET half == Len(s) \div 2
           front == Dedup(SubSeq(s, 1, half))
           back == Dedup(SubSeq(s, half + 1, Len(s)))
       IN front \o SelectSeq(back, LAMBDA x : x \notin Range(front))

RECURSIVE Flatten(_)
Flatten(ss) == IF ss = <<>> THEN <<>> ELSE Head(ss) \o Flatten(Tail(ss))

\* Number(big): the account ids of the model stay below LimbBase^2.
NumberOf(limbs) == limbs[NumLimbs] + LimbBase * limbs[NumLimbs - 1]

MapGet(map, key) ==
  IF \E p \in map : p[1] = key
    THEN (CHOOSE p \in map : p[1] = key)[2]
    ELSE Undefined

\* ---- get_trade_offers ------------------------------------------------
NeedsPartnerNames_NoLengthCheck(flag, allOffers) == flag

NeedsPartnerNames_IgnoreFlag(flag, allOffers) == Len(allOffers) > 0

NeedsPartnerNames(flag, allOffers) == flag /\ Len(allOffers) > 0

TradeOfferKeys_NoSet(allOffers) == allOffers

TradeOfferKeys(allOffers) == Dedup(allOffers)

TradeOfferSteamIds(allOffers) ==
  LET accountIds == TradeOfferKeys(allOffers)
  IN [k \in 1..Len(accountIds) |-> accountIdToSteamId(AccountIdOf(accountIds[k]))]

\* The players the remote side returns for one player-summaries request.
RemoteSummaries(steamIds) ==
  {[steamid |-> s, personaname |-> NumberOf(SteamIdToAccountId(s))] :
      s \in {t \in Range(steamIds) : NumberOf(SteamIdToAccountId(t)) \in known}}

PartnerNames(summaries) ==
  {<<NumberOf(SteamIdToAccountId(p.steamid)), p.personaname>> : p \in summaries}

FormatOffers_DropUnmatched(offers, partnerNames) ==
  LET kept == SelectSeq(offers, LAMBDA o : MapGet(partnerNames, o) # Undefined)
  IN [i \in 1..Len(kept) |-> [key |-> kept[i], name |-> MapGet(partnerNames, kept[i])]]

FormatOffers(offers, partnerNames) ==
  [i \in 1..Len(offers) |-> [key |-> offers[i], name |-> MapGet(partnerNames, offers[i])]]

TradeOffersStart ==
  /\ joinTool = "get_trade_offers"
  /\ joinPc = "start"
  /\ joinPc' = "primary"
  /\ joinCalls' = joinCalls + 1
  /\ UNCHANGED <<joinTool, joinFlag, primary, primaryRecv, known, joinRequests,
                 joinChunks, joinMap, joinOut, joinOutRecv, joinOutcome>>
  /\ UNCHANGED outsideJoin

TradeOffersPrimaryOk ==
  /\ joinTool = "get_trade_offers"
  /\ joinPc = "primary"
  /\ LET allOffers == primary \o primaryRecv
     IN IF NeedsPartnerNames(joinFlag, allOffers)
          THEN /\ joinRequests' = Append(joinRequests, TradeOfferSteamIds(allOffers))
               /\ joinCalls' = joinCalls + 1
               /\ joinPc' = "secondary"
               /\ UNCHANGED <<joinOut, joinOutRecv, joinOutcome>>
          ELSE /\ joinOut' = FormatOffers(primary, joinMap)
               /\ joinOutRecv' = FormatOffers(primaryRecv, joinMap)
               /\ joinOutcome' = "ok"
               /\ joinPc' = "done"
               /\ UNCHANGED <<joinRequests, joinCalls>>
  /\ UNCHANGED <<joinTool, joinFlag, primary, primaryRecv, known, joinChunks, joinMap>>
  /\ UNCHANGED outsideJoin

TradeOffersPrimaryFail ==
  /\ joinTool = "get_trade_offers"
  /\ joinPc = "primary"
  /\ joinOutcome' = "error_text"
  /\ joinPc' = "done"
  /\ UNCHANGED <<joinTool, joinFlag, primary, primaryRecv, known, joinRequests,
                 joinChunks, joinMap, joinOut, joinOutRecv, joinCalls>>
  /\ UNCHANGED outsideJoin

TradeOffersSecondaryOk ==
  /\ joinTool = "get_trade_offers"
  /\ joinPc = "secondary"
  /\ LET partnerNames == PartnerNames(RemoteSummaries(joinRequests[Len(joinRequests)]))
     IN /\ joinMap' = partnerNames
        /\ joinOut' = FormatOffers(primary, partnerNames)
        /\ joinOutRecv' = FormatOffers(primaryRecv, partnerNames)
  /\ joinOutcome' = "ok"
  /\ joinPc' = "done"
  /\ UNCHANGED <<joinTool, joinFlag, primary, primaryRecv, known, joinRequests,
                 joinChunks, joinCalls>>
  /\ UNCHANGED outsideJoin

\* a handler that falls back to the offers without partner names
OffersAfterFailure_Unenriched(offers) == FormatOffers(offers, {})

\* catch (error) { return { content: [text] } }: the offers fetched so far
\* are not part of what the handler returns
OffersAfterFailure(offers) == <<>>

TradeOffersSecondaryFail ==
  /\ joinTool = "get_trade_offers"
  /\ joinPc = "secondary"
  /\ joinOutcome' = "error_text"
  /\ joinOut' = OffersAfterFailure(primary)
  /\ joinOutRecv' = OffersAfterFailure(primaryRecv)
  /\ joinPc' = "done"
  /\ UNCHANGED <<joinTool, joinFlag, primary, primaryRecv, known, joinRequests,
                 joinChunks, joinMap, joinCalls>>
  /\ UNCHANGED outsideJoin

\* ---- client joins: getFriendList, getBadges, getWishlist --------------
RECURSIVE Chunks(_, _)
Chunks(keys, max) ==
  IF keys = <<>> THEN <<>>
  ELSE IF Len(keys) <= max THEN <<keys>>
  ELSE <<SubSeq(keys, 1, max)>> \o Chunks(SubSeq(keys, max + 1, Len(keys)), max)

\* A badge without appid has no key; friends and wishlist items always do.
ClientKeys(records) == Dedup(SelectSeq(records, LAMBDA k : k # Undefined))

ClientRequests_NoChunks(t, keys) == IF keys = <<>> THEN <<>> ELSE <<keys>>

ClientRequests(t, keys) ==
  IF t = "getFriendList" THEN Chunks(keys, MaxIdsPerRequest)
  ELSE IF keys = <<>> THEN <<>> ELSE <<keys>>

\* The names the remote side returns for one secondary request.
RemoteNames(keys) == {<<k, k>> : k \in Range(keys) \cap known}

EnrichRecords(records, names) ==
  [i \in 1..Len(records) |-> [key |-> records[i], name |-> MapGet(names, records[i])]]

ClientStart ==
  /\ joinTool # "get_trade_offers"
  /\ joinPc = "start"
  /\ joinPc' = "primary"
  /\ joinCalls' = joinCalls + 1
  /\ UNCHANGED <<joinTool, joinFlag, primary, primaryRecv, known, joinRequests,
                 joinChunks, joinMap, joinOut, joinOutRecv, joinOutcome>>
  /\ UNCHANGED outsideJoin

ClientPrimaryOk ==
  /\ joinTool # "get_trade_offers"
  /\ joinPc = "primary"
  /\ LET requests == IF joinFlag THEN ClientRequests(joinTool, ClientKeys(primary))
                     ELSE <<>>
     IN IF requests # <<>>
          THEN /\ joinRequests' = Append(joinRequests, Head(requests))
               /\ joinChunks' = Tail(requests)
               /\ joinCalls' = joinCalls + 1
               /\ joinPc' = "secondary"
               /\ UNCHANGED <<joinOut, joinOutcome>>
          ELSE /\ joinOut' = EnrichRecords(primary, joinMap)
               /\ joinOutcome' = "ok"
               /\ joinPc' = "done"
               /\ UNCHANGED <<joinRequests, joinChunks, joinCalls>>
  /\ UNCHANGED <<joinTool, joinFlag, primary, primaryRecv, known, joinMap, joinOutRecv>>
  /\ UNCHANGED outsideJoin

ClientPrimaryFail ==
  /\ joinTool # "get_trade_offers"
  /\ joinPc = "primary"
  /\ joinOutcome' = "rejected"
  /\ joinPc' = "done"
  /\ UNCHANGED <<joinTool, joinFlag, primary, primaryRecv, known, joinRequests,
                 joinChunks, joinMap, joinOut, joinOutRecv, joinCalls>>
  /\ UNCHANGED outsideJoin

ClientChunkOk ==
  /\ joinTool # "get_trade_offers"
  /\ joinPc = "secondary"
  /\ LET names == joinMap \cup RemoteNames(joinRequests[Len(joinRequests)])
     IN /\ joinMap' = names
        /\ IF joinChunks # <<>>
             THEN /\ joinRequests' = Append(joinRequests, Head(joinChunks))
                  /\ joinChunks' = Tail(joinChunks)
                  /\ joinCalls' = joinCalls + 1
                  /\ UNCHANGED <<joinPc, joinOut, joinOutcome>>
             ELSE /\ joinOut' = EnrichRecords(primary, names)
                  /\ joinOutcome' = "ok"
                  /\ joinPc' = "done"
                  /\ UNCHANGED <<joinRequests, joinChunks, joinCalls>>
  /\ UNCHANGED <<joinTool, joinFlag, primary, primaryRecv, known, joinOutRecv>>
  /\ UNCHANGED outsideJoin

ClientChunkFail ==
  /\ joinTool # "get_trade_offers"
  /\ joinPc = "secondary"
  /\ joinOutcome' = "rejected"
  /\ joinPc' = "done"
  /\ UNCHANGED <<joinTool, joinFlag, primary, primaryRecv, known, joinRequests,
                 joinChunks, joinMap, joinOut, joinOutRecv, joinCalls>>
  /\ UNCHANGED outsideJoin

\* ---- inputs ----------------------------------------------------------
SeqsUpTo(S, n) == UNION {[1..m -> S] : m \in 0..n}

Distinct(n) == [i \in 1..n |-> i]

BigLists == {Distinct(n) : n \in BigSizes}

PrimaryLists(t) ==
  CASE t = "get_trade_offers" -> SeqsUpTo(1..MaxKey, MaxPrimary) \cup BigLists
    [] t = "getFriendList" -> {Distinct(n) : n \in 0..MaxPrimary} \cup BigLists
    [] t = "getBadges" -> SeqsUpTo({Undefined} \cup (1..MaxKey), MaxPrimary)
    [] t = "getWishlist" -> SeqsUpTo(1..MaxKey, MaxPrimary)

KnownSets ==
  (SUBSET (1..MaxKey))
    \cup {1..(MaxIdsPerRequest + 50), {k \in 1..(MaxIdsPerRequest + 50) : k % 2 = 1}}

InitJoin ==
  /\ joinTool \in JoinTools
  /\ joinFlag \in BOOLEAN
  /\ primary \in PrimaryLists(joinTool)
  /\ primaryRecv \in IF joinTool = "get_trade_offers"
                       THEN SeqsUpTo(1..MaxKey, MaxReceived) ELSE {<<>>}
  /\ known \in KnownSets
  /\ joinPc = "start"
  /\ joinRequests = <<>>
  /\ joinChunks = <<>>
  /\ joinMap = {}
  /\ joinOut = <<>>
  /\ joinOutRecv = <<>>
  /\ joinOutcome = "running"
  /\ joinCalls = 0
  /\ FanIdle
  /\ CacheIdle
  /\ IdIdle
  /\ RqIdle

NextJoin ==
  \/ TradeOffersStart
  \/ TradeOffersPrimaryOk
  \/ TradeOffersPrimaryFail
  \/ TradeOffersSecondaryOk
  \/ TradeOffersSecondaryFail
  \/ ClientStart
  \/ ClientPrimaryOk
  \/ ClientPrimaryFail
  \/ ClientChunkOk
  \/ ClientChunkFail

SpecEnrich == InitJoin /\ [][NextJoin]_vars

\* ---- the claims about enrichment joins --------------------------------
HasKey(map, key) == \E p \in map : p[1] = key

JoinedOnto(out, records) ==
  /\ Len(out) = Len(records)
  /\ \A i \in 1..Len(records) :
        /\ out[i].key = records[i]
        /\ out[i].name # Undefined <=> HasKey(joinMap, records[i])
        /\ out[i].name # Undefined => <<records[i], out[i].name>> \in joinMap

Unenriched(out, records) ==
  /\ Len(out) = Len(records)
  /\ \A i \in 1..Len(records) : out[i].key = records[i] /\ out[i].name = Undefined

\* The keys a call has to hydrate, as a set.
KeysNeeded == Range(primary \o primaryRecv) \ {Undefined}

\* The identifier that stands for key k in a secondary request.
WireId(k) ==
  IF joinTool = "get_trade_offers" THEN accountIdToSteamId(AccountIdOf(k)) ELSE k

C12_DistinctKeysOnce ==
  joinRequests # <<>> =>
    LET sent == Flatten(joinRequests)
    IN /\ Range(sent) \subseteq {WireId(k) : k \in KeysNeeded}
       /\ Cardinality(Range(sent)) = Len(sent)
       /\ joinChunks = <<>> => Len(sent) = Cardinality(KeysNeeded)

C12_Witness ==
  /\ joinTool = "get_trade_offers"
  /\ primary = <<1, 2, 1>>
  /\ primaryRecv = <<2>>
  /\ Len(joinRequests) = 1
  /\ joinRequests[1] = <<accountIdToSteamId(AccountIdOf(1)), accountIdToSteamId(AccountIdOf(2))>>

\* C13: with no key to hydrate a finished join has made the primary call
\* only and its records carry no name.
C13_NoKeysNoSecondary ==
  (joinOutcome = "ok" /\ KeysNeeded = {}) =>
    /\ joinCalls = 1
    /\ joinRequests = <<>>
    /\ Unenriched(joinOut, primary)
    /\ Unenriched(joinOutRecv, primaryRecv)

C13_Witness ==
  /\ joinTool = "get_trade_offers"
  /\ joinFlag
  /\ primary = <<>>
  /\ primaryRecv = <<>>
  /\ joinOutcome = "ok"
  /\ joinCalls = 1

C15_RequestsWithinMax ==
  /\ \A r \in 1..Len(joinRequests) : Len(joinRequests[r]) <= MaxIdsPerRequest
  /\ (joinOutcome = "ok" /\ joinRequests # <<>>) =>
        \A k \in KeysNeeded \cap known : HasKey(joinMap, k)

\* C17: with the enrichment flag off a finished join has made the primary
\* call only and every primary record is in the output without a name.
C17_FlagOffNoSecondary ==
  (joinOutcome = "ok" /\ ~joinFlag) =>
    /\ joinCalls = 1
    /\ joinRequests = <<>>
    /\ Unenriched(joinOut, primary)
    /\ Unenriched(joinOutRecv, primaryRecv)

C17_Witness ==
  /\ joinTool = "get_trade_offers"
  /\ ~joinFlag
  /\ primary = <<1, 1, 2>>
  /\ primaryRecv = <<2>>
  /\ known = {1, 2}
  /\ joinOutcome = "ok"
  /\ Len(joinOut) = 3

\* =====================================================================
\*  Properties of the tool handlers (SpecFanOut)
\* =====================================================================
\* C18: a handler that fails at getSteamId or at its top-level call, that is
\* before any parallelMap call, ends with a text outcome and never rejected.
C18_FailureIsText ==
  (tool # "parallelMap" /\ pc = "idle") => toolState # "rejected"

\* what the tool serialises when the operations complete in input order
InOrderOutput ==
  IF tool = "get_perfect_games"
    THEN SortByCountDesc(QualifiedEntries(Len(items)))
    ELSE QualifiedEntries(Len(items))

\* C19: the output sequence of the two fan-out tools is a function of the
\* inputs and the remote answers: under every completion order it is the
\* sequence the in-order completion gives.
C19_OrderIndependent ==
  (tool \in Tools /\ toolState = "returned") => toolOutput = InOrderOutput

IsPerfect(r) ==
  /\ r.ok /\ r.success /\ Len(r.achieved) > 0
  /\ \A k \in 1..Len(r.achieved) : r.achieved[k] = 1

\* C20: get_perfect_games returns exactly the owned games with visible stats
\* and playtime whose achievements call succeeded with at least one
\* achievement, all achieved; each once, by achievement_count descending.
C20_PerfectGamesExact ==
  (tool = "get_perfect_games" /\ toolState = "returned") =>
    /\ \A g \in 1..Len(games) :
          (\E j \in 1..Len(toolOutput) : toolOutput[j].appid = games[g].appid)
            <=> /\ games[g].has_community_visible_stats
                /\ games[g].playtime_forever > 0
                /\ \E k \in 1..Len(items) :
                      items[k] = games[g].appid /\ IsPerfect(gw[k])
    /\ \A j \in 1..Len(toolOutput) :
          /\ \E g \in 1..Len(games) : games[g].appid = toolOutput[j].appid
          /\ \E k \in 1..Len(items) :
                /\ items[k] = toolOutput[j].appid
                /\ toolOutput[j].achievement_count = Len(gw[k].achieved)
    /\ \A i, j \in 1..Len(toolOutput) :
          /\ toolOutput[i].appid = toolOutput[j].appid => i = j
          /\ i < j => toolOutput[i].achievement_count >= toolOutput[j].achievement_count

C20_Witness ==
  /\ tool = "get_perfect_games"
  /\ toolState = "returned"
  /\ Len(games) = 3
  /\ games[1].has_community_visible_stats /\ games[1].playtime_forever = 0
  /\ ~games[2].has_community_visible_stats /\ games[2].playtime_forever > 0
  /\ items = <<3>>
  /\ gw[1].achieved = <<1, 1>>
  /\ Len(toolOutput) = 1
  /\ toolOutput[1].appid = 3
  /\ toolOutput[1].achievement_count = 2

\* C21: parallelMap on an empty items sequence starts no operation, is never
\* held at an await and returns the empty list, whatever the limit.
C21_EmptyItems ==
  (pc # "idle" /\ Len(items) = 0) =>
    /\ pc \in {"loop", "all", "returned"}
    /\ startLog = <<>>
    /\ executing = <<>>
    /\ results = <<>>
    /\ pc = "all" => AllFulfilled(executing, status)
    /\ toolState = "returned" => toolOutput = <<>>

C21_Witness ==
  /\ tool = "parallelMap"
  /\ items = <<>>
  /\ concurrency = 2
  /\ pc = "returned"
  /\ toolState = "returned"
  /\ results = <<>>

\* parallelMap called directly, with a test double as fn
InitParallelMap ==
  /\ tool = "parallelMap"
  /\ items \in {[i \in 1..n |-> i] : n \in 0..MaxItems}
  /\ concurrency \in 1..MaxLimit
  /\ stub \in [1..Len(items) -> StubKinds]
  /\ gw = [i \in 1..Len(items) |-> GwError]
  /\ pc = "loop"
  /\ next = 1
  /\ executing = <<>>
  /\ status = [i \in 1..Len(items) |-> "unstarted"]
  /\ results = <<>>
  /\ raceWinner = 0
  /\ sweepIdx = 0
  /\ settledFlag = FALSE
  /\ startLog = <<>>
  /\ windowFilled = FALSE
  /\ toolState = "running"
  /\ toolOutput = <<>>
  /\ steamId = <<>>
  /\ games = <<>>
  /\ topCalls = 0
  /\ steam_id = <<>>
  /\ defaultSteamId = <<>>
  /\ CacheIdle
  /\ IdIdle
  /\ JoinIdle
  /\ RqIdle

NextParallelMap ==
  \/ Launch
  \/ LoopExit
  \/ \E i \in 1..Len(items) : Settle(i)
  \/ RaceResume
  \/ SweepStep
  \/ AllResolve
  \/ AllReject
  \/ HandlerReturn
  \/ HandlerReject

\* The event loop runs every continuation that is ready, and every started
\* operation settles: some enabled step is eventually taken.
SpecParallelMapLive ==
  InitParallelMap /\ [][NextParallelMap]_vars /\ WF_vars(NextParallelMap)

\* C22: a parallelMap call that has entered its loop eventually returns or
\* fails.
C22_EventuallyOver == (pc = "loop") ~> (pc \in {"returned", "failed"})

C22_Witness ==
  /\ tool = "parallelMap"
  /\ pc = "returned"
  /\ concurrency = 1
  /\ Len(items) = 3
  /\ windowFilled
  /\ Len(executing) = 3

\* C23: when the loop goes on after a removal sweep, the window holds only
\* unsettled operations and no more than the limit.
C23_SweepRemovesSettled ==
  (pc = "loop" /\ windowFilled) =>
    /\ \A k \in 1..Len(executing) : status[executing[k]] = "pending"
    /\ Len(executing) <= concurrency

\* C24 as stated: the timestamp stored in the cache never decreases from one
\* cache write to the next.
C24_TimestampNeverDecreases ==
  [][writeLog' # writeLog => appListCache'.timestamp >= appListCache.timestamp]_vars

\* C24 amended: a cache write stores the clock value its own call read when
\* it started; the stored timestamp decreases from one write to the next only
\* when the writing fetch was started before the fetch of the previous write.
C24_TimestampOfWriter ==
  [][writeLog' # writeLog =>
       /\ appListCache'.timestamp = fetchIssuedAt[Last(writeLog')]
       /\ writeLog # <<>> =>
            /\ appListCache'.timestamp < appListCache.timestamp
                  => Last(writeLog') < Last(writeLog)
            /\ Last(writeLog') > Last(writeLog)
                  => appListCache'.timestamp >= appListCache.timestamp
    ]_vars

C24_Witness ==
  \E c, d \in Calls :
     /\ callFetch[c] = 1 /\ callFetch[d] = 2
     /\ callPc[c] = "returned" /\ callPc[d] = "returned"
     /\ writeLog = <<1, 2>>
     /\ callNow[c] < callNow[d]
     /\ appListCache = [apps |-> 2, timestamp |-> callNow[d]]

\* C25: when get_trade_offers has sent its player-summaries request, it ends
\* with the offers or, if that request fails, with a failure text and none
\* of the offers.
C25_SecondaryFailureIsText ==
  /\ [][(joinTool = "get_trade_offers" /\ joinPc = "secondary") =>
          \/ joinOutcome' = "ok"
          \/ /\ joinOutcome' = "error_text"
             /\ joinOut' = <<>>
             /\ joinOutRecv' = <<>>
       ]_vars
  /\ []((joinTool = "get_trade_offers" /\ joinOutcome = "error_text") =>
          (joinOut = <<>> /\ joinOutRecv = <<>>))

C25_Witness ==
  /\ joinTool = "get_trade_offers"
  /\ joinFlag
  /\ primary = <<1, 2, 1>>
  /\ primaryRecv = <<1>>
  /\ Len(joinRequests) = 1
  /\ joinCalls = 2
  /\ joinOutcome = "error_text"
  /\ joinOut = <<>>

\* the id a handler works with: the provided one when non-empty, otherwise
\* the STEAM_ID default
EffectiveId == IF steam_id # <<>> THEN steam_id ELSE defaultSteamId

SeventeenDigits(id) == Len(id) = 17 /\ \A k \in 1..Len(id) : id[k] \in 0..9

\* C26: a handler whose effective id is missing or not 17 digits ends without
\* any Gateway call; whenever a call has been issued the id was validated.
C26_ValidationPrecedesCalls ==
  (tool # "parallelMap" /\ toolState # "start") =>
    /\ ~SeventeenDigits(EffectiveId) =>
          /\ topCalls = 0
          /\ pc = "idle"
          /\ startLog = <<>>
          /\ toolState \in {"rejected", "error_text"}
    /\ (topCalls > 0 \/ startLog # <<>>) =>
          /\ SeventeenDigits(EffectiveId)
          /\ steamId = EffectiveId

C26_Witness ==
  /\ tool = "get_perfect_games"
  /\ steam_id = <<>>
  /\ Len(defaultSteamId) = 17
  /\ defaultSteamId[17] = NonDigit
  /\ toolState = "rejected"
  /\ topCalls = 0

\* =====================================================================
\*  Single-call tools: get_inventory, get_owned_games,
\*  get_servers_at_address
\* =====================================================================
MaxAssets == 2
MaxDescs == 2
MaxOwned == 2

RqTools == {"get_inventory", "get_owned_games", "get_servers_at_address"}

\* how a handler ends when getSteamId or its Gateway call throws:
\* get_owned_games has no try/catch, the other two return a text
RqFailureOutcome(t) == IF t = "get_owned_games" THEN "rejected" ELSE "error_text"

\* ---- get_inventory -----------------------------------------------------
ClassIds == {1, 2}
InstanceIds == {0, 1}

\* tradable, marketable and the optional tags of a description
DescFlags ==
  { [tradable |-> 1, marketable |-> 1, has_tags |-> TRUE],
    [tradable |-> 1, marketable |-> 0, has_tags |-> FALSE],
    [tradable |-> 0, marketable |-> 1, has_tags |-> TRUE] }

Asset(assetid, classid, instanceid) ==
  [assetid |-> assetid, amount |-> 1, classid |-> classid, instanceid |-> instanceid]

\* the description at position j is named j, of type j, tagged <<j>>
Description(j, classid, instanceid, flags) ==
  [classid |-> classid, instanceid |-> instanceid, name |-> j, type |-> j,
   tradable |-> flags.tradable, marketable |-> flags.marketable,
   has_tags |-> flags.has_tags,
   tags |-> IF flags.has_tags THEN <<[localized_tag_name |-> j]>> ELSE <<>>]

AssetLists ==
  UNION {{[i \in 1..n |-> Asset(i, f[i][1], f[i][2])] :
            f \in [1..n -> ClassIds \X InstanceIds]} : n \in 0..MaxAssets}

DescLists ==
  UNION {{[j \in 1..m |-> Description(j, f[j][1], f[j][2], f[j][3])] :
            f \in [1..m -> ClassIds \X InstanceIds \X DescFlags]} : m \in 0..MaxDescs}

InventoryAnswers ==
  {[assets |-> a, descriptions |-> d, total_inventory_count |-> Len(a)] :
     a \in AssetLists, d \in DescLists}

\* a lookup by classid alone
FindDescription_ClassOnly(descs, asset) ==
  IF \E j \in 1..Len(descs) : descs[j].classid = asset.classid
    THEN CHOOSE j \in 1..Len(descs) :
           /\ descs[j].classid = asset.classid
           /\ \A k \in 1..(j - 1) : descs[k].classid # asset.classid
    ELSE 0

\* inventory.descriptions.find((d) => d.classid === asset.classid &&
\*   d.instanceid === asset.instanceid): the index found, 0 for undefined
FindDescription(descs, asset) ==
  IF \E j \in 1..Len(descs) :
        descs[j].classid = asset.classid /\ descs[j].instanceid = asset.instanceid
    THEN CHOOSE j \in 1..Len(descs) :
           /\ descs[j].classid = asset.classid /\ descs[j].instanceid = asset.instanceid
           /\ \A k \in 1..(j - 1) :
                 ~(descs[k].classid = asset.classid /\ descs[k].instanceid = asset.instanceid)
    ELSE 0

\* the object built for one asset (tags: defined = FALSE stands for undefined)
MergeItem(asset, descs) ==
  LET j == FindDescription(descs, asset)
  IN [assetid |-> asset.assetid,
      amount |-> asset.amount,
      name |-> IF j = 0 THEN Undefined ELSE descs[j].name,
      type |-> IF j = 0 THEN Undefined ELSE descs[j].type,
      tradable |-> j # 0 /\ descs[j].tradable = 1,
      marketable |-> j # 0 /\ descs[j].marketable = 1,
      tags |-> IF j # 0 /\ descs[j].has_tags
                 THEN [defined |-> TRUE,
                       names |-> [t \in 1..Len(descs[j].tags) |->
                                    descs[j].tags[t].localized_tag_name]]
                 ELSE [defined |-> FALSE, names |-> <<>>]]

MergeInventory(inventory) ==
  [i \in 1..Len(inventory.assets) |-> MergeItem(inventory.assets[i], inventory.descriptions)]

\* get_inventory / get_owned_games run to their await: getSteamId(steam_id)
\* is evaluated, then the Gateway call is issued.
RqStart ==
  /\ rqTool \in {"get_inventory", "get_owned_games"}
  /\ rqPc = "start"
  /\ \E providedId \in ProvidedIds, default \in DefaultIds :
       IF getSteamId(providedId, default).ok
         THEN /\ rqPc' = "called"
              /\ rqCalls' = rqCalls + 1
              /\ UNCHANGED rqOutcome
         ELSE /\ rqPc' = "done"
              /\ rqOutcome' = RqFailureOutcome(rqTool)
              /\ UNCHANGED rqCalls
  /\ UNCHANGED <<rqTool, rqArgs, rqAnswer, rqOut>>
  /\ UNCHANGED outsideRq

\* the Gateway call throws
RqFail ==
  /\ rqPc = "called"
  /\ rqPc' = "done"
  /\ rqOutcome' = RqFailureOutcome(rqTool)
  /\ UNCHANGED <<rqTool, rqArgs, rqCalls, rqAnswer, rqOut>>
  /\ UNCHANGED outsideRq

\* steam.getInventory resolves: the assets are merged with the descriptions
InventoryOk ==
  /\ rqTool = "get_inventory"
  /\ rqPc = "called"
  /\ \E inventory \in InventoryAnswers :
       /\ rqAnswer' = inventory
       /\ rqOut' = [total |-> inventory.total_inventory_count,
                    returned |-> Len(inventory.assets),
                    items |-> MergeInventory(inventory)]
  /\ rqPc' = "done"
  /\ rqOutcome' = "ok"
  /\ UNCHANGED <<rqTool, rqArgs, rqCalls>>
  /\ UNCHANGED outsideRq

\* ---- get_owned_games ---------------------------------------------------
\* names are ranked by localeCompare; rank 0 is the absent name (?? "");
\* playtime_2weeks 0 is the absent one (?? 0)
OwnedGame(appid, name, playtime_forever, playtime_2weeks) ==
  [appid |-> appid, name |-> name, playtime_forever |-> playtime_forever,
   playtime_2weeks |-> playtime_2weeks]

OwnedGameFields == {0, 1, 2} \X {1, 2} \X {0, 1}

OwnedAnswers ==
  UNION {{[i \in 1..n |-> OwnedGame(i, f[i][1], f[i][2], f[i][3])] :
            f \in [1..n -> OwnedGameFields]} : n \in 0..MaxOwned}

\* limit: z.number().optional(); offset: z.number().optional().default(0)
Limits == {<<>>} \cup {<<l>> : l \in -1..(MaxOwned + 1)}
Offsets == -1..(MaxOwned + 1)
SortOrders == {"playtime", "name", "recent"}

\* the three comparators, as a key to sort ascending by
SortKey(g, sort_by) ==
  IF sort_by = "name" THEN g.name
  ELSE IF sort_by = "recent" THEN 0 - g.playtime_2weeks
  ELSE 0 - g.playtime_forever

InsertByKey(sorted, g, sort_by) ==
  LET k == Cardinality({i \in 1..Len(sorted) :
                          SortKey(sorted[i], sort_by) <= SortKey(g, sort_by)})
  IN SubSeq(sorted, 1, k) \o <<g>> \o SubSeq(sorted, k + 1, Len(sorted))

\* games.sort(compare): Array.prototype.sort is stable
RECURSIVE SortGames(_, _)
SortGames(list, sort_by) ==
  IF list = <<>> THEN <<>>
  ELSE InsertByKey(SortGames(SubSeq(list, 1, Len(list) - 1), sort_by),
                   list[Len(list)], sort_by)

\* an index argument of Array.prototype.slice on a list of n elements
JsIndex(k, n) ==
  IF k < 0 THEN (IF n + k < 0 THEN 0 ELSE n + k)
  ELSE (IF k > n THEN n ELSE k)

\* list.slice(start, end)
JsSlice(list, start, end) ==
  SubSeq(list, JsIndex(start, Len(list)) + 1, JsIndex(end, Len(list)))

\* if (offset > 0) games = games.slice(offset);
\* if (limit) games = games.slice(0, limit);   (0 and undefined are falsy)
Paginate(sorted, offset, limit) ==
  LET skipped == IF offset > 0 THEN JsSlice(sorted, offset, Len(sorted)) ELSE sorted
  IN IF limit # <<>> /\ limit[1] # 0
       THEN JsSlice(skipped, 0, limit[1])
       ELSE skipped

\* steam.getOwnedGames resolves: sort, count, paginate
OwnedGamesOk ==
  /\ rqTool = "get_owned_games"
  /\ rqPc = "called"
  /\ \E answer \in OwnedAnswers :
       LET sorted == SortGames(answer, rqArgs.sort_by)
           page == Paginate(sorted, rqArgs.offset, rqArgs.limit)
       IN /\ rqAnswer' = answer
          /\ rqOut' = [total_games |-> Len(sorted), returned |-> Len(page),
                       offset |-> rqArgs.offset, games |-> page]
  /\ rqPc' = "done"
  /\ rqOutcome' = "ok"
  /\ UNCHANGED <<rqTool, rqArgs, rqCalls>>
  /\ UNCHANGED outsideRq

\* ---- get_servers_at_address --------------------------------------------
\* an address is a sequence of characters: the digits 0..9, NonDigit, and
Dot == 11
Colon == 12
\* the NaN that Number yields for a string that is no numeral
NaN == -1

\* s.split(sep)
RECURSIVE Split(_, _)
Split(s, sep) ==
  IF \A i \in 1..Len(s) : s[i] # sep THEN <<s>>
  ELSE LET i == CHOOSE i \in 1..Len(s) :
                  s[i] = sep /\ \A k \in 1..(i - 1) : s[k] # sep
       IN <<SubSeq(s, 1, i - 1)>> \o Split(SubSeq(s, i + 1, Len(s)), sep)

\* \d{lo,hi}
IsDigits(s, lo, hi) ==
  /\ Len(s) >= lo /\ Len(s) <= hi
  /\ \A i \in 1..Len(s) : s[i] \in 0..9

RECURSIVE DigitsValue(_)
DigitsValue(s) ==
  IF s = <<>> THEN 0 ELSE 10 * DigitsValue(SubSeq(s, 1, Len(s) - 1)) + s[Len(s)]

\* Number(s) of a string without dot or sign: "" is 0, a non-numeral is NaN
Number(s) ==
  IF \A i \in 1..Len(s) : s[i] \in 0..9 THEN DigitsValue(s) ELSE NaN

\* IPV4_REGEX.test(address)
MatchesIPv4(address) ==
  LET halves == Split(address, Colon)
      octets == Split(halves[1], Dot)
  IN /\ Len(halves) \in {1, 2}
     /\ Len(halves) = 2 => IsDigits(halves[2], 1, 5)
     /\ Len(octets) = 4
     /\ \A k \in 1..4 : IsDigits(octets[k], 1, 3)

\* the length and range test alone
isPrivateIp_RangeOnly(ip) ==
  LET strs == Split(Split(ip, Colon)[1], Dot)
      parts == [k \in 1..Len(strs) |-> Number(strs[k])]
  IN \/ Len(parts) # 4
     \/ \E k \in 1..Len(parts) : parts[k] # NaN /\ (parts[k] < 0 \/ parts[k] > 255)

isPrivateIp(ip) ==
  LET strs == Split(Split(ip, Colon)[1], Dot)
      parts == [k \in 1..Len(strs) |-> Number(strs[k])]
  IN IF \/ Len(parts) # 4
        \/ \E k \in 1..Len(parts) : parts[k] # NaN /\ (parts[k] < 0 \/ parts[k] > 255)
       THEN TRUE
       ELSE LET a == parts[1]
                b == parts[2]
            IN \/ a = 10
               \/ (a = 172 /\ b >= 16 /\ b <= 31)
               \/ (a = 192 /\ b = 168)
               \/ a = 127
               \/ a = 0
               \/ (a = 169 /\ b = 254)
               \/ (a >= 224 /\ a <= 239)
               \/ a >= 240

isValidServerAddress(address) ==
  IF ~MatchesIPv4(address) THEN FALSE
  ELSE IF isPrivateIp(address) THEN FALSE
  ELSE TRUE

\* the addresses tried: first and second octets around every blocked range,
\* out-of-range and malformed octets, three and five octets, ports
FirstOctets ==
  { <<0>>, <<8>>, <<1, 0>>, <<0, 1, 0>>, <<1, 1>>, <<1, 2, 7>>, <<1, 6, 9>>,
    <<1, 7, 2>>, <<1, 9, 2>>, <<2, 2, 3>>, <<2, 2, 4>>, <<2, 3, 9>>, <<2, 4, 0>>,
    <<2, 5, 5>>, <<2, 5, 6>>, <<9, 9, 9>>, <<1, NonDigit>>, <<>>, <<1, 0, 0, 0>> }

SecondOctets ==
  { <<0>>, <<1, 5>>, <<1, 6>>, <<3, 1>>, <<3, 2>>, <<1, 6, 8>>, <<2, 5, 4>>, <<3, 0, 0>> }

TailOctets ==
  { <<1, Dot, 1>>, <<2, 5, 6, Dot, 1>>, <<1, Dot, 2, 5, 6>>, <<1>>,
    <<1, Dot, 1, Dot, 1>> }

Ports ==
  { <<>>, <<Colon, 2, 7, 0, 1, 5>>, <<Colon, 1, 2, 3, 4, 5, 6>>, <<Colon>>,
    <<Colon, 8, NonDigit>>, <<Colon, 8, 0, Colon, 1>> }

ServerAddresses ==
  {<<>>} \cup
  {a \o <<Dot>> \o b \o <<Dot>> \o t \o port :
     a \in FirstOctets, b \in SecondOctets, t \in TailOctets, port \in Ports}

\* answers of steam.getServersAtAddress
ServerLists == {<<>>, <<1>>, <<1, 2>>}

\* the handler runs to its first return or to its await
ServersStart ==
  /\ rqTool = "get_servers_at_address"
  /\ rqPc = "start"
  /\ IF ~isValidServerAddress(rqArgs.address)
       THEN /\ rqPc' = "done"
            /\ rqOutcome' = "invalid_text"
            /\ UNCHANGED rqCalls
       ELSE /\ rqPc' = "called"
            /\ rqCalls' = rqCalls + 1
            /\ UNCHANGED rqOutcome
  /\ UNCHANGED <<rqTool, rqArgs, rqAnswer, rqOut>>
  /\ UNCHANGED outsideRq

ServersOk ==
  /\ rqTool = "get_servers_at_address"
  /\ rqPc = "called"
  /\ \E servers \in ServerLists :
       /\ rqAnswer' = servers
       /\ rqOut' = [server_count |-> Len(servers), servers |-> servers]
  /\ rqPc' = "done"
  /\ rqOutcome' = "ok"
  /\ UNCHANGED <<rqTool, rqArgs, rqCalls>>
  /\ UNCHANGED outsideRq

InitTools ==
  /\ rqTool \in RqTools
  /\ rqArgs \in (IF rqTool = "get_owned_games"
                   THEN {[address |-> <<>>, limit |-> l, offset |-> o, sort_by |-> sb] :
                           l \in Limits, o \in Offsets, sb \in SortOrders}
                 ELSE IF rqTool = "get_servers_at_address"
                   THEN {[address |-> a, limit |-> <<>>, offset |-> 0, sort_by |-> "playtime"] :
                           a \in ServerAddresses}
                 ELSE {NoArgs})
  /\ rqPc = "start"
  /\ rqCalls = 0
  /\ rqAnswer = <<>>
  /\ rqOutcome = "none"
  /\ rqOut = <<>>
  /\ FanIdle
  /\ CacheIdle
  /\ IdIdle
  /\ JoinIdle

NextTools ==
  \/ RqStart
  \/ RqFail
  \/ InventoryOk
  \/ OwnedGamesOk
  \/ ServersStart
  \/ ServersOk

SpecTools == InitTools /\ [][NextTools]_vars

\* ---------------------------------------------------------------------
\* C27: get_inventory outputs exactly one item per asset, in asset order;
\* an item takes name, type, tradable, marketable and tags from the first
\* description whose classid and instanceid both equal the asset's, and an
\* asset without such a description is still output, with name and type
\* undefined and tradable and marketable false.
C27_OneItemPerAsset ==
  (rqTool = "get_inventory" /\ rqOutcome = "ok") =>
    LET assets == rqAnswer.assets
        descs == rqAnswer.descriptions
        out == rqOut.items
    IN /\ Len(out) = Len(assets)
       /\ \A i \in 1..Len(assets) :
            LET matching == {j \in 1..Len(descs) :
                               /\ descs[j].classid = assets[i].classid
                               /\ descs[j].instanceid = assets[i].instanceid}
            IN /\ out[i].assetid = assets[i].assetid
               /\ matching = {} =>
                    /\ out[i].name = Undefined /\ out[i].type = Undefined
                    /\ ~out[i].tradable /\ ~out[i].marketable
                    /\ ~out[i].tags.defined
               /\ matching # {} =>
                    LET first == CHOOSE j \in matching : \A k \in matching : j <= k
                    IN /\ out[i].name = descs[first].name
                       /\ out[i].type = descs[first].type
                       /\ out[i].tradable = (descs[first].tradable = 1)
                       /\ out[i].marketable = (descs[first].marketable = 1)
                       /\ out[i].tags.defined = descs[first].has_tags
                       /\ descs[first].has_tags =>
                            out[i].tags.names = <<descs[first].tags[1].localized_tag_name>>

\* two descriptions match the first asset and differ in their flags; the
\* second asset shares only its classid with them
C27_Witness ==
  /\ rqTool = "get_inventory" /\ rqOutcome = "ok"
  /\ Len(rqAnswer.assets) = 2 /\ Len(rqAnswer.descriptions) = 2
  /\ rqAnswer.assets[1].classid = 1 /\ rqAnswer.assets[1].instanceid = 0
  /\ rqAnswer.assets[2].classid = 1 /\ rqAnswer.assets[2].instanceid = 1
  /\ \A j \in 1..2 : rqAnswer.descriptions[j].classid = 1 /\ rqAnswer.descriptions[j].instanceid = 0
  /\ rqAnswer.descriptions[1].tradable = 0 /\ rqAnswer.descriptions[2].tradable = 1
  /\ rqOut.items[1].name = 1 /\ ~rqOut.items[1].tradable /\ rqOut.items[1].marketable
  /\ rqOut.items[2].assetid = 2 /\ rqOut.items[2].name = Undefined
  /\ ~rqOut.items[2].marketable

\* ---------------------------------------------------------------------
\* C28: get_owned_games with offset o and limit l returns exactly the
\* elements at positions o .. o+l-1 of the fully sorted list (fewer when the
\* list ends), reports total_games as the size of the full list, and never
\* returns more than l games whenever a limit is given.
C28_Pagination ==
  (/\ rqTool = "get_owned_games" /\ rqOutcome = "ok"
   /\ rqArgs.offset >= 0
   /\ rqArgs.limit # <<>> /\ rqArgs.limit[1] >= 0) =>
    LET sorted == SortGames(rqAnswer, rqArgs.sort_by)
        o == rqArgs.offset
        l == rqArgs.limit[1]
        positions == {i \in 1..Len(sorted) : i > o /\ i <= o + l}
    IN /\ rqOut.total_games = Len(rqAnswer)
       /\ Len(rqOut.games) = Cardinality(positions)
       /\ \A k \in 1..Len(rqOut.games) : rqOut.games[k] = sorted[o + k]
       /\ Len(rqOut.games) <= l

\* ---------------------------------------------------------------------
\* C29: get_servers_at_address issues the Gateway call only for an address
\* a.b.c.d or a.b.c.d:port whose four octets are each in 0..255 and that
\* lies in none of the blocked ranges; every other address is rejected with
\* no remote call.
\* 10/8, 172.16/12, 192.168/16, 127/8, 0/8, 169.254/16, 224/4, 240/4, each
\* as <<first octet, second octet, prefix length>>
BlockedRanges ==
  { <<10, 0, 8>>, <<172, 16, 12>>, <<192, 168, 16>>, <<127, 0, 8>>, <<0, 0, 8>>,
    <<169, 254, 16>>, <<224, 0, 4>>, <<240, 0, 4>> }

\* a.b.x.y lies in the range: the leading bits of a.b equal the range's
InBlock(a, b, range) ==
  (a * 256 + b) \div (2 ^ (16 - range[3])) =
    (range[1] * 256 + range[2]) \div (2 ^ (16 - range[3]))

AllowedAddress(address) ==
  LET halves == Split(address, Colon)
      strs == Split(halves[1], Dot)
      Numeral(s) == s # <<>> /\ \A i \in 1..Len(s) : s[i] \in 0..9
  IN /\ Len(halves) \in {1, 2}
     /\ Len(halves) = 2 => Numeral(halves[2])
     /\ Len(strs) = 4
     /\ \A k \in 1..4 : Numeral(strs[k]) /\ DigitsValue(strs[k]) \in 0..255
     /\ \A range \in BlockedRanges :
          ~InBlock(DigitsValue(strs[1]), DigitsValue(strs[2]), range)

C29_CallOnlyForPublicAddress ==
  rqTool = "get_servers_at_address" =>
    /\ rqCalls > 0 => AllowedAddress(rqArgs.address)
    /\ (~AllowedAddress(rqArgs.address) /\ rqPc = "done") =>
         (rqOutcome = "invalid_text" /\ rqCalls = 0)

\* 172.31.1.1:27015, the last block of 172.16/12, has been rejected
C29_Witness ==
  /\ rqTool = "get_servers_at_address"
  /\ rqArgs.address = <<1, 7, 2, Dot, 3, 1, Dot, 1, Dot, 1, Colon, 2, 7, 0, 1, 5>>
  /\ rqPc = "done" /\ rqOutcome = "invalid_text" /\ rqCalls = 0

====
